---------------------------- MODULE Spec2Model ----------------------------
(***************************************************************************)
(* Jira employee-performance export: the three script variants main.py,    *)
(* 1stJuly2025.py and 25thJuly2025.py.  The model covers credential        *)
(* loading, project enumeration, the paginated issue fetch, the mapping of *)
(* raw issues to rows (date parsing, text sanitising, metrics) and the CSV *)
(* export.                                                                 *)
(*                                                                         *)
(* Python values are tagged records: None, strings (sequences of code      *)
(* points), date strings (by their layout), dicts, lists, datetimes.       *)
(* A raised exception is the value Raise.                                  *)
(*                                                                         *)
(* The state holds issues and rows by handle: an issue by its key, a row   *)
(* by the key of its issue (or by the project of a placeholder row).  The  *)
(* issue behind a key is SourceIssue, the row behind a handle is TaskRow:  *)
(* the mapping from issue to row is a pure function of the issue.          *)
(***************************************************************************)
EXTENDS Integers, Sequences, FiniteSets, TLC

VARIABLES
    variant,      \* which script runs: "main", "1stJuly" or "25thJuly"
    env,          \* the credential variables set in the environment
    source,       \* the issue source: the issues each project holds
    pc,           \* the script's position
    projects,     \* the result of get_projects()
    pidx,         \* index in projects of the project being processed
    start_at,     \* get_project_issues: the offset of the next request
    all_issues,   \* get_project_issues: the issues accumulated so far
    requests,     \* the startAt of each request of the current call
    pages,        \* the size of each page the current call received
    nrequests,    \* HTTP requests issued since startup
    tasks,        \* what the last get_project_issues call returned
    all_tasks,    \* the rows collected for the export
    outcome,      \* per project, what the run printed for it
    csv,          \* the file written: None, or its header and rows
    exportCalls   \* calls of the export function

vars == <<variant, env, source, pc, projects, pidx, start_at, all_issues,
          requests, pages, nrequests, tasks, all_tasks, outcome, csv,
          exportCalls>>

--------------------------------------------------------------------------
(* Bounds of the model                                                     *)

MaxProjects == 2
MaxFullPages == 2
ShortPage == 37
MaxDay == 2

(* Program constant: max_results                                           *)
max_results == 100

--------------------------------------------------------------------------
(* Python / JSON values                                                    *)

None == [t |-> "none"]
Missing == [t |-> "missing"]
Raise == [t |-> "raise"]
Str(s) == [t |-> "str", s |-> s]
PyBool(b) == [t |-> "bool", b |-> b]
PyInt(n) == [t |-> "int", n |-> n]
List(items) == [t |-> "list", items |-> items]
EmptyStr == Str(<< >>)

(* A date string, by the parts of its layout: calendar day, whether it has *)
(* the 'T' time part, the hour, whether fractional seconds are written,    *)
(* the zone marker ("none", "Z", "off"), and for an offset its sign,       *)
(* whether it is written with a colon, and its hours.                      *)
DateStr(day, hasT, hour, frac, tz, sign, colon, offh) ==
    [t |-> "dstr", day |-> day, hasT |-> hasT, hour |-> hour, frac |-> frac,
     tz |-> tz, sign |-> sign, colon |-> colon, offh |-> offh]

DateOnly(day) == DateStr(day, FALSE, 0, FALSE, "none", 1, FALSE, 0)

(* datetime: local wall-clock hours since the epoch, tz-aware or naive,    *)
(* and the UTC offset in hours of an aware one.                            *)
DateTime(h, aware, off) == [t |-> "dt", h |-> h, aware |-> aware, off |-> off]

(* Python truthiness of the values the scripts test with `if x` / `not x`. *)
Truthy(v) ==
    CASE v.t = "none" -> FALSE
      [] v.t = "missing" -> FALSE
      [] v.t = "str" -> v.s # << >>
      [] v.t = "list" -> v.items # << >>
      [] v.t = "bool" -> v.b
      [] OTHER -> TRUE

(* dict.get(key) and dict.get(key, default) on a dict held as a record     *)
(* whose absent keys carry Missing.                                        *)
Get(d, k) == IF d[k] = Missing THEN None ELSE d[k]
GetD(d, k, default) == IF d[k] = Missing THEN default ELSE d[k]

(* {} as the default of fields.get('issuetype', {}) and the like.          *)
EmptyNamed == [t |-> "obj", name |-> Missing]

(* x.get('name') on the result of fields.get(k, {}): AttributeError when   *)
(* the value is JSON null.                                                 *)
GetName(o) == IF o.t = "obj" THEN Get(o, "name") ELSE Raise

--------------------------------------------------------------------------
(* Text                                                                    *)

InEmojiRange(c) ==
    \/ c >= 128512 /\ c <= 128591
    \/ c >= 127744 /\ c <= 128511
    \/ c >= 128640 /\ c <= 128767
    \/ c >= 127462 /\ c <= 127487
    \/ c >= 9984 /\ c <= 10175
    \/ c >= 129280 /\ c <= 129535
    \/ c >= 9728 /\ c <= 9983

NotEmoji(c) == ~InEmojiRange(c)
IsAscii(c) == c < 128

remove_emojis(text) ==
    IF text = Raise THEN Raise
    ELSE IF ~Truthy(text) THEN EmptyStr
    ELSE Str(SelectSeq(SelectSeq(text.s, NotEmoji), IsAscii))

(* str.replace(',', ' ')                                                   *)
ReplaceComma(v) ==
    IF v = Raise THEN Raise
    ELSE IF v.t # "str" THEN Raise
    ELSE Str([i \in 1..Len(v.s) |-> IF v.s[i] = 44 THEN 32 ELSE v.s[i]])

RECURSIVE JoinSeq(_)
JoinSeq(items) ==
    IF items = << >> THEN << >>
    ELSE IF Len(items) = 1 THEN items[1]
    ELSE items[1] \o <<44, 32>> \o JoinSeq(Tail(items))

(* ', '.join(x): TypeError when x is None.                                 *)
JoinLabels(v) == IF v.t = "list" THEN Str(JoinSeq(v.items)) ELSE Raise

--------------------------------------------------------------------------
(* Dates                                                                   *)

HasT(d) == d.hasT
EndsWithZ(d) == d.hasT /\ d.tz = "Z"
HasPlus(d) == d.hasT /\ d.tz = "off" /\ d.sign = 1
ColonCount(d) ==
    (IF d.hasT THEN 2 ELSE 0) + (IF d.hasT /\ d.tz = "off" /\ d.colon THEN 1 ELSE 0)

(* datetime.strptime under each of the four format strings; Raise is       *)
(* ValueError.  %z accepts +HHMM, -HHMM, +HH:MM, -HH:MM and Z.             *)
StrptimeFracZ(d) ==
    IF d.hasT /\ d.frac /\ d.tz = "Z"
    THEN DateTime(d.day * 24 + d.hour, FALSE, 0) ELSE Raise

StrptimeFracOffset(d) ==
    IF d.hasT /\ d.frac /\ d.tz = "off"
    THEN DateTime(d.day * 24 + d.hour, TRUE, d.sign * d.offh)
    ELSE IF d.hasT /\ d.frac /\ d.tz = "Z"
    THEN DateTime(d.day * 24 + d.hour, TRUE, 0)
    ELSE Raise

StrptimePlain(d) ==
    IF d.hasT /\ ~d.frac /\ d.tz = "none"
    THEN DateTime(d.day * 24 + d.hour, FALSE, 0) ELSE Raise

StrptimeDate(d) ==
    IF ~d.hasT THEN DateTime(d.day * 24, FALSE, 0) ELSE Raise

(* The test that selects the fractional-seconds-with-offset layout.        *)
IsOffsetLayout(d) == HasPlus(d) \/ ColonCount(d) > 2

(* dt.replace(tzinfo=None) in 25thJuly2025.py; 1stJuly2025.py returns the  *)
(* aware datetime as parsed.                                               *)
StripTz(v, dt) ==
    IF dt = Raise THEN Raise
    ELSE IF v = "25thJuly" THEN DateTime(dt.h, FALSE, 0) ELSE dt

(* except ValueError: return None                                          *)
NoneOnValueError(dt) == IF dt = Raise THEN None ELSE dt

parse_jira_date(v, date_str) ==
    IF ~Truthy(date_str) THEN None
    ELSE NoneOnValueError(
           IF HasT(date_str)
           THEN IF EndsWithZ(date_str) THEN StrptimeFracZ(date_str)
                ELSE IF IsOffsetLayout(date_str)
                THEN StripTz(v, StrptimeFracOffset(date_str))
                ELSE StrptimePlain(date_str)
           ELSE StrptimeDate(date_str))

(* parsed_date.date().isoformat() if parsed_date else ''                   *)
IsoDate(parsed_date) ==
    IF parsed_date = None THEN EmptyStr ELSE DateOnly(parsed_date.h \div 24)

format_date(v, date_str) == IsoDate(parse_jira_date(v, date_str))

(* a - b and a <= b on datetimes: TypeError when one is aware and the      *)
(* other naive; aware ones compare as instants.                            *)
Instant(a) == a.h - a.off
DaysBetween(a, b) ==
    IF a.aware # b.aware THEN Raise
    ELSE PyInt((Instant(a) - Instant(b)) \div 24)
DtLeq(a, b) ==
    IF a.aware # b.aware THEN Raise
    ELSE PyBool(Instant(a) <= Instant(b))

--------------------------------------------------------------------------
(* Python dicts with insertion order: a sequence of <<key, value>> pairs.  *)

Dict(items) == [t |-> "dict", items |-> items]
HasKey(d, k) == \E i \in 1..Len(d.items) : d.items[i][1] = k
DictGet(d, k) ==
    LET i == CHOOSE j \in 1..Len(d.items) : d.items[j][1] = k IN d.items[i][2]
(* d[k] = v: an existing key keeps its place, a new key goes last.         *)
DictSet(d, k, v) ==
    IF HasKey(d, k)
    THEN Dict([i \in 1..Len(d.items) |->
                 IF d.items[i][1] = k THEN <<k, v>> ELSE d.items[i]])
    ELSE Dict(Append(d.items, <<k, v>>))
Keys(d) == [i \in 1..Len(d.items) |-> d.items[i][1]]

--------------------------------------------------------------------------
(* String literals of the scripts, as code points                          *)

Yes == Str(<<89, 101, 115>>)
No == Str(<<78, 111>>)
NA == Str(<<78, 47, 65>>)
Done == Str(<<68, 111, 110, 101>>)
NoTaskCreated ==
    Str(<<78, 111, 32, 116, 97, 115, 107, 47, 101, 112, 105, 99, 32,
          99, 114, 101, 97, 116, 101, 100>>)

--------------------------------------------------------------------------
(* compute_metrics                                                         *)

(* The except branch: the three defaults.  A key the try block had already *)
(* set keeps its place, so the key order is that of the normal path.       *)
MetricDefaults(task, empty) ==
    DictSet(DictSet(DictSet(task, "time_to_resolve_days", empty),
                    "delay_days", empty), "sla_met", NA)

(* The three assignments of the try block, in order; any of the three      *)
(* values raising leads to the except branch.                              *)
StoreMetrics(task, ttr, delay, sla, empty) ==
    IF ttr = Raise \/ delay = Raise \/ sla = Raise
    THEN MetricDefaults(task, empty)
    ELSE DictSet(DictSet(DictSet(task, "time_to_resolve_days", ttr),
                         "delay_days", delay), "sla_met", sla)

(* (a - b).days if a and b else empty                                      *)
DaysOrEmpty(a, b, empty) ==
    IF Truthy(a) /\ Truthy(b) THEN DaysBetween(a, b) ELSE empty

YesNo(le) == IF le = Raise THEN Raise ELSE IF le.b THEN Yes ELSE No

(* 25thJuly2025.py: 'Yes' if resolved and due and resolved <= due          *)
(*                  else 'No' if resolved and due else 'N/A'               *)
SlaVerdict25thJuly(resolved, due) ==
    IF Truthy(resolved) /\ Truthy(due) THEN YesNo(DtLeq(resolved, due)) ELSE NA

Metrics25thJuly(task, created, resolved, due) ==
    StoreMetrics(task, DaysOrEmpty(resolved, created, EmptyStr),
                 DaysOrEmpty(resolved, due, EmptyStr),
                 SlaVerdict25thJuly(resolved, due), EmptyStr)

compute_metrics_25thJuly(task, raw_created, raw_resolved, raw_due) ==
    Metrics25thJuly(task, parse_jira_date("25thJuly", raw_created),
                    parse_jira_date("25thJuly", raw_resolved),
                    parse_jira_date("25thJuly", raw_due))

(* 1stJuly2025.py: if resolved and due: 'Yes' if resolved <= due else 'No' *)
(*                 else: 'N/A'                                             *)
SlaVerdict1stJuly(resolved, due) ==
    IF Truthy(resolved) /\ Truthy(due) THEN YesNo(DtLeq(resolved, due)) ELSE NA

Metrics1stJuly(task, created, resolved, due) ==
    StoreMetrics(task, DaysOrEmpty(resolved, created, EmptyStr),
                 DaysOrEmpty(resolved, due, EmptyStr),
                 SlaVerdict1stJuly(resolved, due), EmptyStr)

compute_metrics_1stJuly(task, raw_created, raw_resolved, raw_due) ==
    Metrics1stJuly(task, parse_jira_date("1stJuly", raw_created),
                   parse_jira_date("1stJuly", raw_resolved),
                   parse_jira_date("1stJuly", raw_due))

(* main.py: every timestamp is read with the one format                    *)
(* '%Y-%m-%dT%H:%M:%S.%f%z'; outside the except branch the verdict is      *)
(* 'Yes' or 'No'.                                                          *)
StrptimeOrNone(raw) == IF Truthy(raw) THEN StrptimeFracOffset(raw) ELSE None

SlaVerdictMain(resolved, due) ==
    IF Truthy(resolved) /\ Truthy(due) THEN YesNo(DtLeq(resolved, due)) ELSE No

MetricsMain(task, created, resolved, due) ==
    IF created = Raise \/ resolved = Raise \/ due = Raise
    THEN MetricDefaults(task, None)
    ELSE StoreMetrics(task, DaysOrEmpty(resolved, created, None),
                      DaysOrEmpty(resolved, due, None),
                      SlaVerdictMain(resolved, due), None)

compute_metrics_main(task) ==
    MetricsMain(task, StrptimeOrNone(DictGet(task, "created_date")),
                StrptimeOrNone(DictGet(task, "resolved_date")),
                StrptimeOrNone(DictGet(task, "due_date")))

--------------------------------------------------------------------------
(* Row mapping: the body of the `for issue in all_issues` loop             *)

Skip == [t |-> "skip"]
NotSkip(r) == r # Skip

(* parent_field['fields']['summary'] if parent_field and 'fields' in       *)
(* parent_field else <absent>: TypeError when parent.fields is null,       *)
(* KeyError when parent.fields has no summary.                             *)
ParentSummary(parent_field, absent) ==
    IF Truthy(parent_field) /\ parent_field.fields # Missing
    THEN IF parent_field.fields.t # "obj" THEN Raise
         ELSE IF parent_field.fields.summary = Missing THEN Raise
         ELSE parent_field.fields.summary
    ELSE absent

AnyRaise(items) == \E i \in 1..Len(items) : items[i][2] = Raise

(* The dict literal: Raise when evaluating any of its values raises.       *)
DictLiteral(items) == IF AnyRaise(items) THEN Raise ELSE Dict(items)

(* The task literal of 25thJuly2025.py, then compute_metrics.              *)
Task25thJuly(issue, fields, assignee, project_name) ==
    DictLiteral(<<
        <<"assignee_name", remove_emojis(Get(assignee, "displayName"))>>,
        <<"project_name", remove_emojis(project_name)>>,
        <<"issue_key", issue.key>>,
        <<"issue_summary", ReplaceComma(remove_emojis(Get(fields, "summary")))>>,
        <<"issue_type", remove_emojis(GetName(GetD(fields, "issuetype", EmptyNamed)))>>,
        <<"status", remove_emojis(GetName(GetD(fields, "status", EmptyNamed)))>>,
        <<"priority", remove_emojis(GetName(GetD(fields, "priority", EmptyNamed)))>>,
        <<"created_date", format_date("25thJuly", Get(fields, "created"))>>,
        <<"start_date", format_date("25thJuly", Get(fields, "statuscategorychangedate"))>>,
        <<"due_date", format_date("25thJuly", Get(fields, "duedate"))>>,
        <<"resolved_date", format_date("25thJuly", Get(fields, "resolutiondate"))>>,
        <<"is_closed", PyBool(Truthy(Get(fields, "resolutiondate")))>>,
        <<"last_updated", format_date("25thJuly", Get(fields, "updated"))>>,
        <<"labels", remove_emojis(JoinLabels(GetD(fields, "labels", List(<< >>))))>>,
        <<"parent_summary",
          ReplaceComma(remove_emojis(ParentSummary(Get(fields, "parent"), EmptyStr)))>>,
        <<"remarks", EmptyStr>> >>)

WithMetrics25thJuly(task, fields) ==
    IF task = Raise THEN Raise
    ELSE compute_metrics_25thJuly(task, Get(fields, "created"),
                                  Get(fields, "resolutiondate"),
                                  Get(fields, "duedate"))

MapIssue25thJuly(issue, project_name) ==
    IF ~Truthy(Get(issue.fields, "assignee")) THEN Skip
    ELSE WithMetrics25thJuly(
             Task25thJuly(issue, issue.fields, Get(issue.fields, "assignee"),
                          project_name),
             issue.fields)

(* The task literal of 1stJuly2025.py: no comma replacement, and an absent *)
(* parent gives None before sanitising.                                    *)
Task1stJuly(issue, fields, assignee, project_name) ==
    DictLiteral(<<
        <<"assignee_name", remove_emojis(Get(assignee, "displayName"))>>,
        <<"project_name", remove_emojis(project_name)>>,
        <<"issue_key", issue.key>>,
        <<"issue_summary", remove_emojis(Get(fields, "summary"))>>,
        <<"issue_type", remove_emojis(GetName(GetD(fields, "issuetype", EmptyNamed)))>>,
        <<"status", remove_emojis(GetName(GetD(fields, "status", EmptyNamed)))>>,
        <<"priority", remove_emojis(GetName(GetD(fields, "priority", EmptyNamed)))>>,
        <<"created_date", format_date("1stJuly", Get(fields, "created"))>>,
        <<"start_date", format_date("1stJuly", Get(fields, "statuscategorychangedate"))>>,
        <<"due_date", format_date("1stJuly", Get(fields, "duedate"))>>,
        <<"resolved_date", format_date("1stJuly", Get(fields, "resolutiondate"))>>,
        <<"is_closed", PyBool(Truthy(Get(fields, "resolutiondate")))>>,
        <<"last_updated", format_date("1stJuly", Get(fields, "updated"))>>,
        <<"labels", remove_emojis(JoinLabels(GetD(fields, "labels", List(<< >>))))>>,
        <<"parent_summary", remove_emojis(ParentSummary(Get(fields, "parent"), None))>>,
        <<"remarks", EmptyStr>> >>)

WithMetrics1stJuly(task, fields) ==
    IF task = Raise THEN Raise
    ELSE compute_metrics_1stJuly(task, Get(fields, "created"),
                                 Get(fields, "resolutiondate"),
                                 Get(fields, "duedate"))

MapIssue1stJuly(issue, project_name) ==
    IF ~Truthy(Get(issue.fields, "assignee")) THEN Skip
    ELSE WithMetrics1stJuly(
             Task1stJuly(issue, issue.fields, Get(issue.fields, "assignee"),
                         project_name),
             issue.fields)

(* main.py: is_closed compares the status name with 'Done'; None == 'Done' *)
(* is False.                                                               *)
StatusIsDone(name) ==
    IF name = Raise THEN Raise ELSE PyBool(name = Done)

(* The task literal of main.py: raw values, no parent, no remarks.         *)
TaskMain(issue, fields, assignee, project_name) ==
    DictLiteral(<<
        <<"assignee_name", Get(assignee, "displayName")>>,
        <<"project_name", project_name>>,
        <<"issue_key", issue.key>>,
        <<"issue_summary", Get(fields, "summary")>>,
        <<"issue_type", GetName(GetD(fields, "issuetype", EmptyNamed))>>,
        <<"status", GetName(GetD(fields, "status", EmptyNamed))>>,
        <<"priority", GetName(GetD(fields, "priority", EmptyNamed))>>,
        <<"created_date", Get(fields, "created")>>,
        <<"start_date", Get(fields, "statuscategorychangedate")>>,
        <<"due_date", Get(fields, "duedate")>>,
        <<"resolved_date", Get(fields, "resolutiondate")>>,
        <<"is_closed", StatusIsDone(GetName(GetD(fields, "status", EmptyNamed)))>>,
        <<"last_updated", Get(fields, "updated")>>,
        <<"labels", JoinLabels(GetD(fields, "labels", List(<< >>)))>> >>)

WithMetricsMain(task) ==
    IF task = Raise THEN Raise ELSE compute_metrics_main(task)

MapIssueMain(issue, project_name) ==
    IF ~Truthy(Get(issue.fields, "assignee")) THEN Skip
    ELSE WithMetricsMain(
             TaskMain(issue, issue.fields, Get(issue.fields, "assignee"),
                      project_name))

MapIssue(v, issue, project_name) ==
    CASE v = "25thJuly" -> MapIssue25thJuly(issue, project_name)
      [] v = "1stJuly" -> MapIssue1stJuly(issue, project_name)
      [] OTHER -> MapIssueMain(issue, project_name)

--------------------------------------------------------------------------
(* The issue source                                                        *)

Variants == {"main", "1stJuly", "25thJuly"}
IsBatch(v) == v # "main"

(* The credentials each script reads from the environment: main.py has the *)
(* domain and the account written in the file.                             *)
CredVars(v) ==
    IF v = "main" THEN {"JIRA_API_TOKEN"}
    ELSE {"JIRA_DOMAIN", "JIRA_EMAIL", "JIRA_API_TOKEN"}

CredentialsComplete == CredVars(variant) \subseteq env

Project(i) == [key |-> i, name |-> Str(<<80, 48 + i>>)]
IssueKey(p, n) == [t |-> "key", p |-> p, n |-> n]

Assignee(name) == [t |-> "obj", displayName |-> name]
Named(name) == [t |-> "obj", name |-> name]
Parent(fields) == [t |-> "obj", fields |-> fields]
ParentFields(summary) == [t |-> "obj", summary |-> summary]

(* "2024-01-DDTHH:00:00.000+0530"-style timestamp, and the plain ones.     *)
OffsetStamp(day, hour, sign, colon) ==
    DateStr(day, TRUE, hour, TRUE, "off", sign, colon, 5)
UtcStamp(day, hour) == DateStr(day, TRUE, hour, TRUE, "Z", 1, FALSE, 0)
PlainStamp(day, hour) == DateStr(day, TRUE, hour, FALSE, "none", 1, FALSE, 0)

BaseFields ==
    [assignee |-> Assignee(Str(<<65, 108, 128512>>)),
     summary |-> Str(<<70, 105, 120, 44, 120>>),
     status |-> Named(Done),
     issuetype |-> Named(Str(<<66, 117, 103>>)),
     priority |-> Named(Str(<<72, 105>>)),
     labels |-> List(<< <<97>>, <<98>> >>),
     parent |-> Missing,
     created |-> OffsetStamp(0, 10, 1, FALSE),
     resolutiondate |-> OffsetStamp(1, 10, 1, FALSE),
     duedate |-> DateOnly(2),
     statuscategorychangedate |-> OffsetStamp(0, 12, 1, FALSE),
     updated |-> OffsetStamp(1, 12, 1, FALSE)]

Unassigned == [BaseFields EXCEPT !.assignee = None]
NullPriority == [BaseFields EXCEPT !.priority = None]

(* The issues of a project repeat a mix: issue k carries                   *)
(* mix[((k - 1) % Len(mix)) + 1].                                          *)
Mixes == {<<BaseFields>>, <<Unassigned>>, <<BaseFields, Unassigned>>,
          <<BaseFields, NullPriority>>}

Remainders == {0, ShortPage}
Totals == {k * max_results + r : k \in 0..MaxFullPages, r \in Remainders}

RECURSIVE SeqsUpTo(_, _)
SeqsUpTo(S, n) ==
    IF n = 0 THEN {<< >>}
    ELSE LET shorter == SeqsUpTo(S, n - 1)
         IN shorter \cup {Append(q, x) : q \in {r \in shorter : Len(r) = n - 1}, x \in S}

Min(a, b) == IF a < b THEN a ELSE b
Max(a, b) == IF a > b THEN a ELSE b

SourceIssue(key) ==
    [key |-> key,
     fields |-> source.mix[((key.n - 1) % Len(source.mix)) + 1]]

(* The source's answer to startAt = s, maxResults = m for project p: the   *)
(* issues s .. min(s + m, N) - 1 of the N it holds.                        *)
Page(p, s, m) ==
    LET n == Min(m, Max(0, source.totals[p] - s))
    IN [i \in 1..n |-> IssueKey(p, s + i)]

(* The whole loop: the rows in fetch order, or Raise when mapping any      *)
(* issue raises (the exception leaves get_project_issues).                 *)
CollectRows(mapped) ==
    IF \E i \in 1..Len(mapped) : mapped[i] = Raise THEN Raise
    ELSE List(SelectSeq(mapped, NotSkip))

MapIssues(v, issues, project_name) ==
    CollectRows([i \in 1..Len(issues) |->
                   MapIssue(v, SourceIssue(issues[i]), project_name)])

(* The row behind a handle of all_tasks.                                   *)
PlaceholderHandle(p) == [t |-> "placeholder", p |-> p]
Handle(row) == DictGet(row, "issue_key")

--------------------------------------------------------------------------
(* Init: the state after the module-level statements have run              *)

EnvChoices(v) ==
    {CredVars(v)} \cup {CredVars(v) \ {c} : c \in CredVars(v)}

InitLocals ==
    /\ pc = "start"
    /\ projects = << >>
    /\ pidx = 0
    /\ start_at = 0
    /\ all_issues = << >>
    /\ requests = << >>
    /\ pages = << >>
    /\ nrequests = 0
    /\ tasks = None
    /\ all_tasks = << >>
    /\ outcome = << >>
    /\ csv = None
    /\ exportCalls = 0

Init ==
    /\ variant \in Variants
    /\ env \in EnvChoices(variant)
    /\ source \in [mix : Mixes, totals : SeqsUpTo(Totals, MaxProjects)]
    /\ InitLocals

--------------------------------------------------------------------------
(* CSV export                                                              *)

(* The placeholder row of run_all_projects.                                *)
Placeholder(project_name) ==
    Dict(<< <<"assignee_name", EmptyStr>>,
            <<"project_name", remove_emojis(project_name)>>,
            <<"issue_key", EmptyStr>>, <<"issue_summary", EmptyStr>>,
            <<"issue_type", EmptyStr>>, <<"status", EmptyStr>>,
            <<"priority", EmptyStr>>, <<"created_date", EmptyStr>>,
            <<"start_date", EmptyStr>>, <<"due_date", EmptyStr>>,
            <<"resolved_date", EmptyStr>>, <<"is_closed", EmptyStr>>,
            <<"last_updated", EmptyStr>>, <<"labels", EmptyStr>>,
            <<"parent_summary", EmptyStr>>,
            <<"time_to_resolve_days", EmptyStr>>, <<"delay_days", EmptyStr>>,
            <<"sla_met", EmptyStr>>, <<"remarks", NoTaskCreated>> >>)

(* csv.DictWriter(fieldnames=list(all_tasks[0].keys())): the header is the *)
(* key order of the first row.  Each row is then written in header order.  *)
(* (The mapped rows of a script and its placeholder row carry the same key *)
(* set, so DictWriter never meets a key outside the header.)               *)
CsvHeader(first_row) == Keys(first_row)

TaskRow(h) ==
    IF h.t = "placeholder" THEN Placeholder(projects[h.p].name)
    ELSE MapIssue(variant, SourceIssue(h), projects[h.p].name)

--------------------------------------------------------------------------
(* Actions                                                                 *)

(* get_projects(), called first by run_all_projects and run_cli: the       *)
(* request is sent with whatever the environment gave.  The source answers *)
(* a request made with incomplete credentials with a failure.              *)
GetProjects ==
    /\ pc = "start"
    /\ nrequests' = nrequests + 1
    /\ \E ok \in (IF CredentialsComplete THEN BOOLEAN ELSE {FALSE}) :
         IF ok
         THEN /\ projects' = [i \in 1..Len(source.totals) |-> Project(i)]
              /\ outcome' = [i \in 1..Len(source.totals) |-> "pending"]
              /\ pc' = IF IsBatch(variant) THEN "loop" ELSE "choose"
              /\ pidx' = IF IsBatch(variant) THEN 1 ELSE 0
         ELSE /\ pc' = "done"
              /\ UNCHANGED <<projects, outcome, pidx>>
    /\ UNCHANGED <<variant, env, source, start_at, all_issues, requests,
                   pages, tasks, all_tasks, csv, exportCalls>>

(* get_project_issues, on entry.                                           *)
EnterGetProjectIssues ==
    /\ start_at' = 0
    /\ all_issues' = << >>
    /\ requests' = << >>
    /\ pages' = << >>
    /\ tasks' = None
    /\ pc' = "fetch"

(* run_cli: the operator's selection, 1-based; anything else ends the run. *)
Choose ==
    /\ pc = "choose"
    /\ \E choice \in 0..(Len(projects) + 1) :
         IF 0 <= choice - 1 /\ choice - 1 < Len(projects)
         THEN /\ pidx' = choice
              /\ EnterGetProjectIssues
         ELSE /\ pc' = "done"
              /\ UNCHANGED <<pidx, start_at, all_issues, requests, pages, tasks>>
    /\ UNCHANGED <<variant, env, source, projects, nrequests, all_tasks,
                   outcome, csv, exportCalls>>

(* run_all_projects: the next iteration of `for project in projects`.      *)
BeginProject ==
    /\ pc = "loop"
    /\ pidx <= Len(projects)
    /\ EnterGetProjectIssues
    /\ UNCHANGED <<variant, env, source, projects, pidx, nrequests, all_tasks,
                   outcome, csv, exportCalls>>

ProjectFailedEndsRun(kind) ==
    /\ outcome' = [outcome EXCEPT ![pidx] = kind]
    /\ pc' = "done"
    /\ pidx' = pidx
    /\ all_tasks' = all_tasks
    /\ tasks' = None

(* The except clause around get_project_issues: the batch scripts print    *)
(* and go on with the next project, run_cli prints and returns.  all_tasks *)
(* is not touched.                                                         *)
ProjectFailed(kind) ==
    /\ outcome' = [outcome EXCEPT ![pidx] = kind]
    /\ pc' = IF IsBatch(variant) THEN "loop" ELSE "done"
    /\ pidx' = IF IsBatch(variant) THEN pidx + 1 ELSE pidx
    /\ all_tasks' = all_tasks
    /\ tasks' = None

IsLastPageOnlyWhenEmpty(issues) == issues = << >>

(* The two break tests of the while loop.                                  *)
IsLastPage(issues) == issues = << >> \/ Len(issues) < max_results

NextStartAtSkipsOne(s) == s + max_results + 1

(* start_at += max_results                                                 *)
NextStartAt(s) == s + max_results

(* One iteration of `while True`: the request, raise_for_status, and the   *)
(* bookkeeping after the page.                                             *)
Fetched(issues) ==
    /\ pages' = Append(pages, Len(issues))
    /\ all_issues' = IF issues = << >> THEN all_issues ELSE all_issues \o issues
    /\ pc' = IF IsLastPage(issues) THEN "map" ELSE "fetch"
    /\ start_at' = IF IsLastPage(issues) THEN start_at ELSE NextStartAt(start_at)
    /\ UNCHANGED <<pidx, tasks, all_tasks, outcome>>

FetchPage ==
    /\ pc = "fetch"
    /\ requests' = Append(requests, start_at)
    /\ nrequests' = nrequests + 1
    /\ \E ok \in BOOLEAN :
         IF ok
         THEN Fetched(Page(pidx, start_at, max_results))
         ELSE /\ ProjectFailed("fetch_failed")
              /\ UNCHANGED <<pages, all_issues, start_at>>
    /\ UNCHANGED <<variant, env, source, projects, csv, exportCalls>>

(* if not tasks: tasks.append(placeholder)                                 *)
WithPlaceholder(rows, p) ==
    IF rows = << >> THEN <<PlaceholderHandle(p)>> ELSE rows

Handles(rows) == [i \in 1..Len(rows) |-> Handle(rows[i])]

(* The file a call of the export function leaves: the header and, by       *)
(* handle, the rows written.                                               *)
Written(handles) ==
    [t |-> "csv", header |-> CsvHeader(TaskRow(handles[1])), rows |-> handles]

(* What the caller does with the rows of get_project_issues:               *)
(* run_all_projects adds the placeholder and extends all_tasks, run_cli    *)
(* exports them, or returns when there are none.                           *)
BatchCollected(rows) ==
    /\ tasks' = List(WithPlaceholder(Handles(rows), pidx))
    /\ all_tasks' = all_tasks \o WithPlaceholder(Handles(rows), pidx)
    /\ outcome' = [outcome EXCEPT ![pidx] =
                     IF rows = << >> THEN "placeholder" ELSE "rows"]
    /\ pidx' = pidx + 1
    /\ pc' = "loop"
    /\ UNCHANGED <<csv, exportCalls>>

CliCollected(rows) ==
    /\ tasks' = List(Handles(rows))
    /\ outcome' = [outcome EXCEPT ![pidx] =
                     IF rows = << >> THEN "none" ELSE "rows"]
    /\ all_tasks' = Handles(rows)
    /\ csv' = IF rows = << >> THEN csv ELSE Written(Handles(rows))
    /\ exportCalls' = IF rows = << >> THEN exportCalls ELSE exportCalls + 1
    /\ pc' = "done"
    /\ UNCHANGED pidx

Collected(rows) ==
    IF rows = Raise
    THEN /\ ProjectFailed("map_failed")
         /\ UNCHANGED <<csv, exportCalls>>
    ELSE IF IsBatch(variant) THEN BatchCollected(rows.items)
    ELSE CliCollected(rows.items)

(* The row loop of get_project_issues, its return, and its caller.         *)
MapRows ==
    /\ pc = "map"
    /\ Collected(MapIssues(variant, all_issues, projects[pidx].name))
    /\ UNCHANGED <<variant, env, source, projects, start_at, all_issues,
                   requests, pages, nrequests>>

(* export_combined_csv(all_tasks), after the loop over the projects.       *)
export_combined_csv ==
    /\ pc = "loop"
    /\ pidx > Len(projects)
    /\ exportCalls' = exportCalls + 1
    /\ csv' = IF all_tasks = << >> THEN csv ELSE Written(all_tasks)
    /\ pc' = "done"
    /\ UNCHANGED <<variant, env, source, projects, pidx, start_at, all_issues,
                   requests, pages, nrequests, tasks, all_tasks, outcome>>

Next ==
    \/ GetProjects
    \/ Choose
    \/ BeginProject
    \/ FetchPage
    \/ MapRows
    \/ export_combined_csv

Spec == Init /\ [][Next]_vars

(* The script runs on: a request of the while loop that can be issued is   *)
(* issued, and it returns (a page or an error).                            *)
SpecFair == Spec /\ WF_vars(FetchPage)

--------------------------------------------------------------------------
(* Row mapping on its own: one project holding one issue, the issue drawn  *)
(* from every combination of timestamp layouts and from every shape of an  *)
(* absent field.                                                           *)

Days == 1..MaxDay
Hours == {0, 12}

(* The layouts a raw timestamp comes in: date-only, plain date-time,       *)
(* UTC-marked, and offset-carrying (either sign, with or without colon).   *)
RawDates ==
    {DateOnly(d) : d \in Days}
    \cup {PlainStamp(d, h) : d \in Days, h \in Hours}
    \cup {UtcStamp(d, h) : d \in Days, h \in Hours}
    \cup {OffsetStamp(d, h, sg, c) :
            d \in Days, h \in Hours, sg \in {1, -1}, c \in BOOLEAN}

Open == Str(<<79, 112, 101, 110>>)

DateFields ==
    {[BaseFields EXCEPT !.resolutiondate = r, !.duedate = d, !.status = st] :
        r \in RawDates \cup {None}, d \in RawDates \cup {None},
        st \in {Named(Done), Named(Open)}}

AbsentNamed == {Missing, None, Named(Missing), Named(None)}

AbsentFields ==
    {[BaseFields EXCEPT !.issuetype = a] : a \in AbsentNamed}
    \cup {[BaseFields EXCEPT !.status = a] : a \in AbsentNamed}
    \cup {[BaseFields EXCEPT !.priority = a] : a \in AbsentNamed}
    \cup {[BaseFields EXCEPT !.labels = a] : a \in {Missing, None, List(<< >>)}}
    \cup {[BaseFields EXCEPT !.parent = a] :
            a \in {None, Parent(Missing), Parent(None),
                   Parent(ParentFields(Missing)), Parent(ParentFields(None)),
                   Parent(ParentFields(Str(<<69, 112, 105, 99>>)))}}
    \cup {[BaseFields EXCEPT !.assignee = a] :
            a \in {Missing, None, Assignee(Missing), Assignee(None)}}

RowFields == DateFields \cup AbsentFields

InitRow ==
    /\ variant \in Variants
    /\ env = CredVars(variant)
    /\ source \in [mix : {<<f>> : f \in RowFields}, totals : {<<1>>}]
    /\ InitLocals

SpecRow == InitRow /\ [][Next]_vars

--------------------------------------------------------------------------
(* Properties                                                              *)

(* The fetch loop of the current call has ended by a break (not by an      *)
(* exception) and the row loop has run.                                    *)
LoopBroke == pages # << >> /\ pages[Len(pages)] < max_results
MappingEnded == LoopBroke /\ pc \notin {"fetch", "map"}

HasAssignee(key) == Get(SourceIssue(key).fields, "assignee") # None
IsIssueRow(h) == h.t = "key"
IssueRows(handles) == SelectSeq(handles, IsIssueRow)
RowsOfProject(p) ==
    {i \in 1..Len(all_tasks) : all_tasks[i].p = p}

(* C1: the requests of a call carry startAt = 0, 100, 200, ...; every page *)
(* before the last received is a full page; once a page is short or empty  *)
(* no further request is issued and the loop has stopped; for page sizes   *)
(* [100, 100, 37] and [100, 100, 0] exactly 3 requests are issued.         *)
C1_Pagination ==
    /\ \A i \in 1..Len(requests) : requests[i] = (i - 1) * max_results
    /\ \A i \in 1..Len(pages) :
         pages[i] < max_results =>
            /\ Len(requests) = i
            /\ Len(pages) = i
            /\ pc # "fetch"
    /\ pages = <<max_results, max_results, 37>> => Len(requests) = 3
    /\ pages = <<max_results, max_results, 0>> => Len(requests) = 3

C1_Witness ==
    /\ pages = <<max_results, max_results, ShortPage>>
    /\ requests = <<0, max_results, 2 * max_results>>
    /\ pc = "map"

C1_WitnessEmptyPage ==
    /\ pages = <<max_results, max_results, 0>>
    /\ requests = <<0, max_results, 2 * max_results>>
    /\ pc = "map"

(* C2: in the batch export every enumerated project has at least one row   *)
(* in the list handed to the CSV export, whatever the outcome of its       *)
(* collection.                                                             *)
C2_EveryProjectHasRow ==
    (IsBatch(variant) /\ exportCalls > 0) =>
        \A p \in 1..Len(projects) : RowsOfProject(p) # {}

(* C3: in the batch export a failed page fetch of project P, on any page,  *)
(* leaves P without any row; the run goes on: at its end every project has *)
(* been processed and the export has been called once; and the rows of the *)
(* projects that were collected are all there, in order.                   *)
ExpectedHandles(p) ==
    WithPlaceholder(
        SelectSeq([k \in 1..source.totals[p] |-> IssueKey(p, k)], HasAssignee), p)

CollectedSoFar(p) ==
    IF p = 0 THEN << >>
    ELSE LET F[q \in 0..p] ==
               IF q = 0 THEN << >>
               ELSE IF outcome[q] \in {"rows", "placeholder"}
               THEN F[q - 1] \o ExpectedHandles(q)
               ELSE F[q - 1]
         IN F[p]

C3_FetchFailureIsPerProject ==
    IsBatch(variant) =>
        /\ \A p \in 1..Len(outcome) :
             outcome[p] = "fetch_failed" => RowsOfProject(p) = {}
        /\ (pc = "done" /\ \E p \in 1..Len(outcome) : outcome[p] = "fetch_failed") =>
             /\ \A q \in 1..Len(outcome) : outcome[q] # "pending"
             /\ exportCalls = 1
        /\ all_tasks = CollectedSoFar(Cardinality(
                          {p \in 1..Len(outcome) : outcome[p] # "pending"}))

C3_Witness ==
    /\ IsBatch(variant)
    /\ pc = "done"
    /\ Len(outcome) = 2
    /\ outcome[1] = "rows"
    /\ outcome[2] = "fetch_failed"
    /\ Len(pages) >= 1
    /\ all_tasks # << >>
    /\ exportCalls = 1

C3_WitnessLaterProject ==
    /\ IsBatch(variant)
    /\ pc = "done"
    /\ Len(outcome) = 2
    /\ outcome[1] = "fetch_failed"
    /\ outcome[2] = "rows"
    /\ exportCalls = 1

(* C4: for every issue row, in every script, sla_met is "Yes" exactly when *)
(* the raw resolved and due timestamps both exist and resolved <= due,     *)
(* "No" exactly when both exist and resolved > due, and "N/A" exactly when *)
(* either is missing.  The timestamps compare by their wall-clock value.   *)
WallClock(d) == d.day * 24 + (IF d.hasT THEN d.hour ELSE 0)

ExpectedSla(raw_resolved, raw_due) ==
    IF Truthy(raw_resolved) /\ Truthy(raw_due)
    THEN IF WallClock(raw_resolved) <= WallClock(raw_due) THEN Yes ELSE No
    ELSE NA

C4_SlaVerdict ==
    \A i \in 1..Len(all_tasks) :
        IsIssueRow(all_tasks[i]) =>
            DictGet(TaskRow(all_tasks[i]), "sla_met") =
                ExpectedSla(Get(SourceIssue(all_tasks[i]).fields, "resolutiondate"),
                            Get(SourceIssue(all_tasks[i]).fields, "duedate"))

(* C5: when the row loop of a call has run, the rows it returned are the   *)
(* fetched issues that have an assignee, one row each, in fetch order.     *)
C5_RowsAreAssignedIssues ==
    MappingEnded =>
        /\ tasks # None
        /\ IssueRows(tasks.items) = SelectSeq(all_issues, HasAssignee)

(* C6: for an issue with an assignee, a field that is absent (its key      *)
(* missing or its value null, at any nesting level) gives an empty column  *)
(* and the row is emitted: every fetched issue with an assignee has its    *)
(* row among the returned rows.                                            *)
IsEmptyValue(v) == v = EmptyStr \/ v = None

AbsentName(o) == o = Missing \/ o = None \/ o.name = Missing \/ o.name = None

AbsentParentSummary(o) ==
    \/ o = Missing
    \/ o = None
    \/ o.fields = Missing
    \/ o.fields = None
    \/ o.fields.summary = Missing
    \/ o.fields.summary = None

EmptyWhereAbsent(row, fields) ==
    /\ AbsentName(fields.issuetype) => IsEmptyValue(DictGet(row, "issue_type"))
    /\ AbsentName(fields.status) => IsEmptyValue(DictGet(row, "status"))
    /\ AbsentName(fields.priority) => IsEmptyValue(DictGet(row, "priority"))
    /\ (fields.labels = Missing \/ fields.labels = None) =>
           IsEmptyValue(DictGet(row, "labels"))
    /\ (HasKey(row, "parent_summary") /\ AbsentParentSummary(fields.parent)) =>
           IsEmptyValue(DictGet(row, "parent_summary"))

C6_AbsentFieldGivesEmptyColumn ==
    MappingEnded =>
        \A i \in 1..Len(all_issues) :
            HasAssignee(all_issues[i]) =>
                /\ tasks # None
                /\ \E j \in 1..Len(tasks.items) : tasks.items[j] = all_issues[i]
                /\ EmptyWhereAbsent(TaskRow(all_issues[i]),
                                    SourceIssue(all_issues[i]).fields)

(* C7: with a required credential missing from the environment no network  *)
(* request is ever issued.                                                 *)
C7_NoRequestWithoutCredentials ==
    ~CredentialsComplete => nrequests = 0

(* C8: for every issue row, in every script, is_closed is true exactly     *)
(* when the raw issue carries a resolution timestamp.                      *)
C8_ClosedIffResolved ==
    \A i \in 1..Len(all_tasks) :
        IsIssueRow(all_tasks[i]) =>
            DictGet(TaskRow(all_tasks[i]), "is_closed") =
                PyBool(Get(SourceIssue(all_tasks[i]).fields, "resolutiondate") # None)

(* C9: the header of the CSV a batch run writes is the NormalizedRow field *)
(* list, in its order.                                                     *)
NormalizedRowFields ==
    <<"assignee_name", "project_name", "issue_key", "issue_summary",
      "issue_type", "status", "priority", "created_date", "start_date",
      "due_date", "resolved_date", "last_updated", "is_closed", "labels",
      "parent_summary", "time_to_resolve_days", "delay_days", "sla_met",
      "remarks">>

C9_HeaderOrder ==
    (IsBatch(variant) /\ csv # None) => csv.header = NormalizedRowFields

(* C10: in the scripts that have parse_jira_date, a date-time with         *)
(* fractional seconds and an explicit UTC offset (either sign, with or     *)
(* without a colon) is taken by the offset layout and parses, so the       *)
(* formatted column is its calendar date.                                  *)
IsOffsetStamp(d) == d # None /\ d.hasT /\ d.frac /\ d.tz = "off"

C10_OffsetStampParses ==
    IsBatch(variant) =>
        \A i \in 1..Len(all_tasks) :
            (/\ IsIssueRow(all_tasks[i])
             /\ IsOffsetStamp(Get(SourceIssue(all_tasks[i]).fields, "resolutiondate")))
            => /\ IsOffsetLayout(SourceIssue(all_tasks[i]).fields.resolutiondate)
               /\ DictGet(TaskRow(all_tasks[i]), "resolved_date") =
                     DateOnly(SourceIssue(all_tasks[i]).fields.resolutiondate.day)

(* C11: for every issue row whose resolved and due timestamps both parse,   *)
(* sla_met tells whether the issue was resolved on or before its due date: *)
(* when the row's resolved_date is the same calendar date as its due_date  *)
(* or an earlier one, sla_met is "Yes"; and when sla_met is "No",          *)
(* delay_days is at least 1.                                               *)
ParsedStamp(v, raw) ==
    IF v = "main" THEN StrptimeOrNone(raw) ELSE parse_jira_date(v, raw)

Parses(v, raw) == ParsedStamp(v, raw) # None /\ ParsedStamp(v, raw) # Raise

BothParse(v, fields) ==
    Parses(v, Get(fields, "resolutiondate")) /\ Parses(v, Get(fields, "duedate"))

AtLeastOneDay(delay) == delay.t = "int" /\ delay.n >= 1

SlaFollowsCalendarDates(row) ==
    /\ DictGet(row, "resolved_date").day <= DictGet(row, "due_date").day =>
           DictGet(row, "sla_met") = Yes
    /\ DictGet(row, "sla_met") = No =>
           AtLeastOneDay(DictGet(row, "delay_days"))

C11_SlaByCalendarDate ==
    \A i \in 1..Len(all_tasks) :
        (/\ IsIssueRow(all_tasks[i])
         /\ BothParse(variant, SourceIssue(all_tasks[i]).fields))
        => SlaFollowsCalendarDates(TaskRow(all_tasks[i]))

(* C12: against a source that holds N issues for the project and answers   *)
(* a request at offset s with the issues s .. min(s + 100, N) - 1, the     *)
(* pagination loop ends for every N; when it ends with the last page, the  *)
(* accumulated list is the N issues, once each, in source order, and       *)
(* ceil((N + 1) / 100) requests were issued; no call issues more.          *)
Ceil(a, b) == (a + b - 1) \div b

IssuesHeld(p) == source.totals[p]

AllIssuesOf(p) == [k \in 1..IssuesHeld(p) |-> IssueKey(p, k)]

RequestsNeeded(p) == Ceil(IssuesHeld(p) + 1, max_results)

PaginationResult ==
    /\ pc = "fetch" => Len(requests) < RequestsNeeded(pidx)
    /\ pc = "map" =>
         /\ all_issues = AllIssuesOf(pidx)
         /\ Len(requests) = RequestsNeeded(pidx)

C12_PaginationTerminatesComplete ==
    /\ []PaginationResult
    /\ (pc = "fetch") ~> (pc # "fetch")

C12_Witness ==
    /\ pc = "map"
    /\ IssuesHeld(pidx) = 2 * max_results
    /\ Len(all_issues) = 2 * max_results
    /\ requests = <<0, max_results, 2 * max_results>>

==========================================================================
